---- MODULE Spec2Model ----
(***************************************************************************)
(* Model of aio_rest_server: the Router (a dict-of-dicts trie keyed by     *)
(* path segment, with a per-node method -> handler-name mapping) and the   *)
(* request path of RESTRequestHandler (resolve, signature binding,         *)
(* handler call, response or error response).                              *)
(*                                                                         *)
(* Paths are sequences of one-character strings, so that str.split('/')    *)
(* and the trailing-slash rule are computed, not assumed.                  *)
(***************************************************************************)
EXTENDS Integers, Sequences, FiniteSets, TLC

VARIABLES
    nodes,       \* Router: the nodes of the dict-of-dicts tree, by key path
    handlers,    \* Router: node -> (method -> handler name)
    routes,      \* history: the <<method, path, handler>> registered without error
    last,        \* the last Router call and what it returned or raised
    debug,       \* RESTRequestHandler.debug
    pc,          \* where the request coroutine stands
    message,     \* the request: method, path, query parameters
    resolved,    \* what router.resolve returned for the request
    bound,       \* what sig.bind produced for the request
    invoked,     \* how many times a route handler was called
    outcome,     \* how the route handler ended
    exc,         \* the exception leaving handle_request, if any
    transport,   \* TRUE while self.transport is not None
    keepAlive,   \* the connection's keep-alive flag
    errors,      \* the status of each handle_error call, in order
    responses    \* the responses written to the connection, in order

routerVars == <<nodes, handlers, routes, last>>

requestVars == <<debug, pc, message, resolved, bound, invoked, outcome, exc,
                 transport, keepAlive, errors, responses>>

vars == <<nodes, handlers, routes, last, debug, pc, message, resolved, bound,
          invoked, outcome, exc, transport, keepAlive, errors, responses>>

----------------------------------------------------------------------------
(* Bounds of the model.                                                    *)

\* Most routes registered in one Router.
MaxRoutes == 2

----------------------------------------------------------------------------
(* Values.                                                                 *)

GET == "GET"

POST == "POST"

Methods == {GET, POST}

HandlerNames == {"foo", "bar"}

\* Python's None.
None == "None"

\* The path separator and the wildcard marker, as characters.
Slash == "/"

Dollar == <<"$">>

\* The text of one segment of a registered pattern: empty, a literal, or the
\* wildcard marker.
PatternSegments == {<<>>, <<"a">>, Dollar}

\* The text of one segment of a resolved path: as above, or another literal.
PathSegments == PatternSegments \cup {<<"b">>}

\* The strings of one segment, or of two joined by '/'.
JoinedPaths(segs) == segs \cup {p \o <<Slash>> \o s : p \in segs, s \in segs}

\* The patterns the model registers.
PatternStrings == JoinedPaths(PatternSegments)

\* The paths the model resolves.
PathStrings == JoinedPaths(PathSegments)

----------------------------------------------------------------------------
(* Router                                                                  *)

RECURSIVE StrSplit(_)
\* path.split('/'): the pieces between separators, always at least one.
StrSplit(s) ==
    IF s = <<>> THEN << <<>> >>
    ELSE IF Head(s) = Slash THEN << <<>> >> \o StrSplit(Tail(s))
    ELSE LET rest == StrSplit(Tail(s))
         IN  << <<Head(s)>> \o Head(rest) >> \o Tail(rest)

\* _split_path without the pop of the empty last piece.
SplitPath_KeepLast(path) == StrSplit(path)

\* Router._split_path: split, then drop one empty last piece.
SplitPath(path) ==
    LET parts == StrSplit(path)
    IN  IF parts[Len(parts)] = <<>>
        THEN SubSeq(parts, 1, Len(parts) - 1)
        ELSE parts

\* A Router node is named by the keys leading to it from the root Router.
Root == <<>>

\* The handlers dict of a fresh Router: no method.
NoHandlers == [m \in {} |-> None]

\* router[part] on the dict subclass: __missing__ creates the child on a miss.
\* Returns <<nodes, handlers, child>>.
GetItem(ns, hs, router, part) ==
    LET child == Append(router, part)
    IN  IF child \in ns
        THEN <<ns, hs, child>>
        ELSE <<ns \cup {child}, [n \in ns \cup {child} |-> IF n = child THEN NoHandlers ELSE hs[n]], child>>

RECURSIVE WalkCreate(_, _, _, _)
\* The loop of set_handler_for_path: router = router[part] for each part.
WalkCreate(ns, hs, router, parts) ==
    IF parts = <<>> THEN <<ns, hs, router>>
    ELSE LET r == GetItem(ns, hs, router, Head(parts))
         IN  WalkCreate(r[1], r[2], r[3], Tail(parts))

\* set_handler_for_path without the duplicate check: the later handler wins.
SetHandler_Overwrite(ns, hs, method, path, handler) ==
    LET w == WalkCreate(ns, hs, Root, SplitPath(path))
        router == w[3]
    IN  [nodes |-> w[1],
         handlers |-> [w[2] EXCEPT ![router] =
                         [m \in DOMAIN @ \cup {method} |->
                             IF m = method THEN handler ELSE @[m]]],
         raised |-> FALSE]

\* set_handler_for_path recording the handler at every node it walks through
\* that has none for the method yet, not only at the last.
SetHandler_AllPrefixes(ns, hs, method, path, handler) ==
    LET w == WalkCreate(ns, hs, Root, SplitPath(path))
        router == w[3]
        onPath(n) == Len(n) <= Len(router) /\ n = SubSeq(router, 1, Len(n))
    IN  IF method \in DOMAIN w[2][router]
        THEN [nodes |-> w[1], handlers |-> w[2], raised |-> TRUE]
        ELSE [nodes |-> w[1],
              handlers |-> [n \in w[1] |->
                              IF onPath(n) /\ method \notin DOMAIN w[2][n]
                              THEN [m \in DOMAIN w[2][n] \cup {method} |->
                                       IF m = method THEN handler ELSE w[2][n][m]]
                              ELSE w[2][n]],
              raised |-> FALSE]

\* set_handler_for_path assigning the handler before it looks for the
\* duplicate: the ValueError comes after the mapping was replaced.
SetHandler_AssignFirst(ns, hs, method, path, handler) ==
    LET w == WalkCreate(ns, hs, Root, SplitPath(path))
        router == w[3]
    IN  [nodes |-> w[1],
         handlers |-> [w[2] EXCEPT ![router] =
                         [m \in DOMAIN @ \cup {method} |->
                             IF m = method THEN handler ELSE @[m]]],
         raised |-> method \in DOMAIN w[2][router]]

\* Router.set_handler_for_path as a function of the tree:
\* [nodes, handlers, raised].
SetHandler(ns, hs, method, path, handler) ==
    LET w == WalkCreate(ns, hs, Root, SplitPath(path))
        router == w[3]
    IN  IF method \in DOMAIN w[2][router]
        THEN [nodes |-> w[1], handlers |-> w[2], raised |-> TRUE]
        ELSE [nodes |-> w[1],
              handlers |-> [w[2] EXCEPT ![router] =
                              [m \in DOMAIN @ \cup {method} |->
                                  IF m = method THEN handler ELSE @[m]]],
              raised |-> FALSE]

\* resolve's not-found result: return None, None.
NotFound == <<None, None>>

RECURSIVE ResolveWalk_Prepend(_, _, _, _)
\* The loop of resolve with each capture put in front of the earlier ones.
ResolveWalk_Prepend(ns, router, parts, args) ==
    IF parts = <<>> THEN [found |-> TRUE, router |-> router, args |-> args]
    ELSE LET part == Head(parts)
         IN  IF Append(router, part) \notin ns
             THEN IF Append(router, Dollar) \notin ns
                  THEN [found |-> FALSE, router |-> router, args |-> args]
                  ELSE ResolveWalk_Prepend(ns, Append(router, Dollar), Tail(parts),
                                           <<part>> \o args)
             ELSE ResolveWalk_Prepend(ns, Append(router, part), Tail(parts), args)

RECURSIVE ResolveWalk_WildcardFirst(_, _, _, _)
\* The loop of resolve trying the '$' child before the literal child.
ResolveWalk_WildcardFirst(ns, router, parts, args) ==
    IF parts = <<>> THEN [found |-> TRUE, router |-> router, args |-> args]
    ELSE LET part == Head(parts)
         IN  IF Append(router, Dollar) \in ns
             THEN ResolveWalk_WildcardFirst(ns, Append(router, Dollar), Tail(parts),
                                            Append(args, part))
             ELSE IF Append(router, part) \in ns
             THEN ResolveWalk_WildcardFirst(ns, Append(router, part), Tail(parts), args)
             ELSE [found |-> FALSE, router |-> router, args |-> args]

RECURSIVE ResolveWalk_Backtrack(_, _, _, _)
\* The loop of resolve going back to the '$' child when the walk below the
\* literal child finds no node.
ResolveWalk_Backtrack(ns, router, parts, args) ==
    IF parts = <<>> THEN [found |-> TRUE, router |-> router, args |-> args]
    ELSE LET part == Head(parts)
             viaLiteral == ResolveWalk_Backtrack(ns, Append(router, part), Tail(parts), args)
             viaDollar == ResolveWalk_Backtrack(ns, Append(router, Dollar), Tail(parts),
                                                Append(args, part))
         IN  IF Append(router, part) \in ns /\ viaLiteral.found
             THEN viaLiteral
             ELSE IF Append(router, Dollar) \in ns
             THEN viaDollar
             ELSE IF Append(router, part) \in ns
             THEN viaLiteral
             ELSE [found |-> FALSE, router |-> router, args |-> args]

RECURSIVE ResolveWalk(_, _, _, _)
\* The loop of resolve: the node reached and the args collected, or found = FALSE
\* where the loop returns None, None.
ResolveWalk(ns, router, parts, args) ==
    IF parts = <<>> THEN [found |-> TRUE, router |-> router, args |-> args]
    ELSE LET part == Head(parts)
         IN  IF Append(router, part) \notin ns
             THEN IF Append(router, Dollar) \notin ns
                  THEN [found |-> FALSE, router |-> router, args |-> args]
                  ELSE ResolveWalk(ns, Append(router, Dollar), Tail(parts),
                                   Append(args, part))
             ELSE ResolveWalk(ns, Append(router, part), Tail(parts), args)

\* The end of resolve taking the handler of any method registered at the node.
HandlerAt_AnyMethod(hs, router, method, args) ==
    IF DOMAIN hs[router] = {} THEN NotFound
    ELSE <<hs[router][CHOOSE m \in DOMAIN hs[router] : TRUE], args>>

\* What resolve returns at the node the loop reached: the handler of the
\* method there, or None, None.
HandlerAt(hs, router, method, args) ==
    IF method \notin DOMAIN hs[router] THEN NotFound
    ELSE <<hs[router][method], args>>

\* Router.resolve as a function of the tree: <<handler, args>>.
ResolveIn(ns, hs, method, path) ==
    LET w == ResolveWalk(ns, Root, SplitPath(path), <<>>)
    IN  IF ~w.found THEN NotFound
        ELSE HandlerAt(hs, w.router, method, w.args)

\* key in router: the membership test of the dict, which creates nothing.
Contains(ns, router, key) == Append(router, key) \in ns

\* router.get(key): the child when there is one, and no __missing__:
\* <<nodes, handlers, child>>.
DictGet(ns, hs, router, key) == <<ns, hs, Append(router, key)>>

\* resolve walking with router[part], as set_handler_for_path does: a miss
\* creates the child.
ResolveTouch_Subscript(ns, hs, router, parts) ==
    <<WalkCreate(ns, hs, router, parts)[1], WalkCreate(ns, hs, router, parts)[2]>>

RECURSIVE ResolveTouch(_, _, _, _)
\* The tree the loop of resolve leaves behind, given the dict operations it
\* uses on the way: <<nodes, handlers>>.
ResolveTouch(ns, hs, router, parts) ==
    IF parts = <<>> THEN <<ns, hs>>
    ELSE LET part == Head(parts)
         IN  IF ~Contains(ns, router, part)
             THEN IF ~Contains(ns, router, Dollar)
                  THEN <<ns, hs>>
                  ELSE LET g == DictGet(ns, hs, router, Dollar)
                       IN  ResolveTouch(g[1], g[2], g[3], Tail(parts))
             ELSE LET g == DictGet(ns, hs, router, part)
                  IN  ResolveTouch(g[1], g[2], g[3], Tail(parts))

\* The record of the last Router call.
NoCall == [op |-> "none", method |-> None, path |-> <<>>, handler |-> None,
           raised |-> FALSE, result |-> NotFound]

\* A Router() with nothing registered.
EmptyNodes == {Root}

EmptyHandlers == [n \in {Root} |-> NoHandlers]

\* A call of set_handler_for_path(method, path, handler).  The ValueError of a
\* duplicate ends the run of calls, as it ends the class body that registers.
SetHandlerForPath(method, path, handler) ==
    LET r == SetHandler(nodes, handlers, method, path, handler)
    IN  /\ last.op \in {"none", "set"}
        /\ ~last.raised
        /\ Cardinality(routes) < MaxRoutes \/ r.raised
        /\ nodes' = r.nodes
        /\ handlers' = r.handlers
        /\ routes' = IF r.raised THEN routes ELSE routes \cup {<<method, path, handler>>}
        /\ last' = [NoCall EXCEPT !.op = "set", !.method = method, !.path = path,
                                  !.handler = handler, !.raised = r.raised]
        /\ UNCHANGED requestVars

\* A call of resolve(method, path), after the registrations.
Resolve(method, path) ==
    /\ last.op \in {"none", "set"}
    /\ ~last.raised
    /\ last' = [NoCall EXCEPT !.op = "resolve", !.method = method, !.path = path,
                              !.result = ResolveIn(nodes, handlers, method, path)]
    /\ LET t == ResolveTouch(nodes, handlers, Root, SplitPath(path))
       IN  nodes' = t[1] /\ handlers' = t[2]
    /\ UNCHANGED routes
    /\ UNCHANGED requestVars

----------------------------------------------------------------------------
(* Route handlers and their signatures                                     *)

\* One declared parameter: its name and whether it has no default.
Param(name, required) == [name |-> name, required |-> required]

\* signature(handler) of a bound method: the positional-or-keyword parameters
\* after self, whether *args is declared, the keyword-only parameters, and
\* whether **kwargs (the open keyword capture) is declared.
Signature(handler) ==
    CASE handler = "foo" ->
            [pos |-> <<Param("message", TRUE), Param("payload", TRUE)>>,
             varpos |-> FALSE, kwonly |-> <<>>, varkw |-> FALSE]
      [] handler = "foo_params" ->
            [pos |-> <<Param("message", TRUE), Param("payload", TRUE),
                       Param("param1", FALSE), Param("param2", FALSE)>>,
             varpos |-> FALSE, kwonly |-> <<>>, varkw |-> FALSE]
      [] handler = "bar" ->
            [pos |-> <<Param("message", TRUE), Param("payload", TRUE)>>,
             varpos |-> FALSE, kwonly |-> <<Param("required", TRUE)>>, varkw |-> FALSE]
      [] handler = "resource_item" ->
            [pos |-> <<Param("message", TRUE), Param("payload", TRUE),
                       Param("resource_name", TRUE), Param("item_id", TRUE),
                       Param("param1", FALSE)>>,
             varpos |-> FALSE, kwonly |-> <<>>, varkw |-> FALSE]
      [] handler = "star_args" ->
            [pos |-> <<Param("message", TRUE), Param("payload", TRUE)>>,
             varpos |-> TRUE, kwonly |-> <<>>, varkw |-> FALSE]
      [] OTHER ->
            [pos |-> <<Param("message", TRUE), Param("payload", TRUE)>>,
             varpos |-> FALSE, kwonly |-> <<>>, varkw |-> TRUE]

\* The class body of the served RESTRequestHandler subclass: its
\* @router.handles_path(method, path) decorations, in order.
ServerRoutes ==
    << <<GET,  <<"/", "f">>, "foo">>,
       <<GET,  <<"/", "f", "/", "$">>, "foo">>,
       <<GET,  <<"/", "p">>, "foo_params">>,
       <<GET,  <<"/", "b">>, "bar">>,
       <<POST, <<"/", "r", "/", "$", "/", "i", "/", "$">>, "resource_item">>,
       <<GET,  <<"/", "k">>, "any_kw">>,
       <<GET,  <<"/", "s", "/", "$">>, "star_args">> >>

RECURSIVE BuildRouter(_, _, _)
\* The Router after the decorations rs were applied to it, first to last.
BuildRouter(ns, hs, rs) ==
    IF rs = <<>> THEN [nodes |-> ns, handlers |-> hs]
    ELSE LET r == SetHandler(ns, hs, Head(rs)[1], Head(rs)[2], Head(rs)[3])
         IN  BuildRouter(r.nodes, r.handlers, Tail(rs))

\* The url paths of the requests sent to the server.
RequestPaths ==
    { <<"/", "f">>, <<"/", "f", "/">>, <<"/", "f", "/", "x">>, <<"/", "p">>,
      <<"/", "b">>, <<"/", "k">>, <<"/", "r", "/", "x", "/", "i", "/", "y">>,
      <<"/", "r", "/", "x">>, <<"/", "s", "/", "x">>, <<"/", "n">> }

\* The query keys a request may carry, each at most once.
QueryKeys == {"param1", "param2", "required", "test", "message", "item_id"}

\* The value of a query parameter: text.
QueryValues == { <<"1">> }

\* params: the query string after parse_qsl, keys to values.
QueryParams == UNION {[ks -> QueryValues] : ks \in SUBSET QueryKeys}

\* The transport arguments handle_request passes first.
MessageArg == <<"<message>">>

PayloadArg == <<"<payload>">>

\* message, payload: what handle_request passes before the captured arguments.
TransportArgs == <<MessageArg, PayloadArg>>

Min(a, b) == IF a < b THEN a ELSE b

\* The parameters of sig that na positional values leave to the keywords.
KeywordParams(sig, na) ==
    {sig.pos[i] : i \in (Min(na, Len(sig.pos)) + 1)..Len(sig.pos)}
        \cup {sig.kwonly[i] : i \in 1..Len(sig.kwonly)}

\* sig.bind without the check for keywords that name no parameter.
BindError_IgnoreUnknown(sig, args, kwargs) ==
    LET rest == KeywordParams(sig, Len(args))
    IN  IF \E i \in 1..Min(Len(args), Len(sig.pos)) : sig.pos[i].name \in DOMAIN kwargs
        THEN "multiple values for argument"
        ELSE IF Len(args) > Len(sig.pos) /\ ~sig.varpos
        THEN "too many positional arguments"
        ELSE IF \E q \in rest : q.required /\ q.name \notin DOMAIN kwargs
        THEN "missing a required argument"
        ELSE None

\* sig.bind without the checks for too many positional values and for
\* required parameters left without a value.
BindError_IgnoreArity(sig, args, kwargs) ==
    LET rest == KeywordParams(sig, Len(args))
    IN  IF \E i \in 1..Min(Len(args), Len(sig.pos)) : sig.pos[i].name \in DOMAIN kwargs
        THEN "multiple values for argument"
        ELSE IF (DOMAIN kwargs \ {q.name : q \in rest}) # {} /\ ~sig.varkw
        THEN "got an unexpected keyword argument"
        ELSE None

\* sig.bind without the check for a keyword that names a parameter already
\* filled positionally.
BindError_IgnoreCollision(sig, args, kwargs) ==
    LET rest == KeywordParams(sig, Len(args))
    IN  IF Len(args) > Len(sig.pos) /\ ~sig.varpos
        THEN "too many positional arguments"
        ELSE IF \E q \in rest : q.required /\ q.name \notin DOMAIN kwargs
        THEN "missing a required argument"
        ELSE IF (DOMAIN kwargs \ {q.name : q \in rest}) # {} /\ ~sig.varkw
        THEN "got an unexpected keyword argument"
        ELSE None

\* The TypeError of sig.bind(*args, **kwargs), or None when it binds: a keyword
\* naming a parameter already filled positionally, more positional values than
\* parameters, a required parameter without a value, a keyword naming no
\* parameter when **kwargs is not declared.
BindError(sig, args, kwargs) ==
    LET rest == KeywordParams(sig, Len(args))
    IN  IF \E i \in 1..Min(Len(args), Len(sig.pos)) : sig.pos[i].name \in DOMAIN kwargs
        THEN "multiple values for argument"
        ELSE IF Len(args) > Len(sig.pos) /\ ~sig.varpos
        THEN "too many positional arguments"
        ELSE IF \E q \in rest : q.required /\ q.name \notin DOMAIN kwargs
        THEN "missing a required argument"
        ELSE IF (DOMAIN kwargs \ {q.name : q \in rest}) # {} /\ ~sig.varkw
        THEN "got an unexpected keyword argument"
        ELSE None

\* sig.bind filling the leading parameters with the positional values after
\* the first two, and only then with the first two.
Bind_CapturesFirst(sig, args, kwargs) ==
    LET turned == SubSeq(args, 3, Len(args)) \o SubSeq(args, 1, 2)
        nfilled == Min(Len(args), Len(sig.pos))
        restNames == {q.name : q \in KeywordParams(sig, Len(args))}
        filled == {sig.pos[i].name : i \in 1..nfilled}
        error == BindError(sig, args, kwargs)
    IN  IF error # None
        THEN [ok |-> FALSE, error |-> error, arguments |-> <<>>,
              varargs |-> <<>>, varkwargs |-> <<>>]
        ELSE [ok |-> TRUE, error |-> None,
              arguments |-> [n \in filled \cup (restNames \cap DOMAIN kwargs) |->
                               IF n \in filled
                               THEN turned[CHOOSE i \in 1..nfilled : sig.pos[i].name = n]
                               ELSE kwargs[n]],
              varargs |-> SubSeq(turned, Len(sig.pos) + 1, Len(args)),
              varkwargs |-> [k \in DOMAIN kwargs \ restNames |-> kwargs[k]]]

\* sig.bind(*args, **kwargs): positional values fill the leading parameters,
\* keywords fill the rest by name; TypeError otherwise.
Bind(sig, args, kwargs) ==
    LET nfilled == Min(Len(args), Len(sig.pos))
        restNames == {q.name : q \in KeywordParams(sig, Len(args))}
        filled == {sig.pos[i].name : i \in 1..nfilled}
        error == BindError(sig, args, kwargs)
    IN  IF error # None
        THEN [ok |-> FALSE, error |-> error, arguments |-> <<>>,
              varargs |-> <<>>, varkwargs |-> <<>>]
        ELSE [ok |-> TRUE, error |-> None,
              arguments |-> [n \in filled \cup (restNames \cap DOMAIN kwargs) |->
                               IF n \in filled
                               THEN args[CHOOSE i \in 1..nfilled : sig.pos[i].name = n]
                               ELSE kwargs[n]],
              varargs |-> SubSeq(args, Len(sig.pos) + 1, Len(args)),
              varkwargs |-> [k \in DOMAIN kwargs \ restNames |-> kwargs[k]]]

NoBind == [ok |-> FALSE, error |-> None, arguments |-> <<>>,
           varargs |-> <<>>, varkwargs |-> <<>>]

\* How many leading positional parameters of sig have a value in b.
LeadingBound(sig, b) ==
    Cardinality({k \in 1..Len(sig.pos) :
                    \A i \in 1..k : sig.pos[i].name \in DOMAIN b.arguments})

\* bound.args: the values of the leading positional parameters that have
\* one, followed by the values *args took.
BoundArgs(sig, b) ==
    LET n == LeadingBound(sig, b)
    IN  [i \in 1..n |-> b.arguments[sig.pos[i].name]]
            \o (IF n = Len(sig.pos) THEN b.varargs ELSE <<>>)

\* bound.kwargs: the values of the other parameters that have one, by name,
\* and what **kwargs took.
BoundKwargs(sig, b) ==
    LET n == LeadingBound(sig, b)
        named == ({sig.pos[i].name : i \in (n + 1)..Len(sig.pos)}
                     \cup {sig.kwonly[i].name : i \in 1..Len(sig.kwonly)})
                 \cap DOMAIN b.arguments
    IN  [k \in named \cup DOMAIN b.varkwargs |->
            IF k \in named THEN b.arguments[k] ELSE b.varkwargs[k]]

----------------------------------------------------------------------------
(* Exceptions and responses                                                *)

NoExc == [type |-> None, http |-> FALSE, code |-> 0, message |-> None, headers |-> None]

\* RESTError(code, message): an HttpProcessingError carrying its status.
RESTError(code, msg) ==
    [type |-> "RESTError", http |-> TRUE, code |-> code, message |-> msg, headers |-> None]

\* RESTError(code, message, headers=...): the headers are None, or they are
\* "invalid": pairs that response.add_header refuses (a value that is no str).
RESTErrorWithHeaders(code, msg, headers) == [RESTError(code, msg) EXCEPT !.headers = headers]

\* Any exception that is not an HttpProcessingError.
PyError(type) ==
    [type |-> type, http |-> FALSE, code |-> 0, message |-> None, headers |-> None]

\* The status of a successful response.
StatusOK == 200

\* The status handle_request raises when resolve finds nothing.
StatusNotFound == 404

\* The status handle_request raises when sig.bind fails.
StatusBadRequest == 400

\* handle_error's default status, used for every other exception.
StatusServerError == 500

\* RESPONSES: status -> <<reason, message>>, for the statuses it lists.
RESPONSES ==
    [s \in {StatusBadRequest, StatusNotFound, StatusServerError} |->
        CASE s = StatusBadRequest -> <<"Bad Request", "Bad request syntax or unsupported method">>
          [] s = StatusNotFound -> <<"Not Found", "Nothing matches the given URI">>
          [] OTHER -> <<"Internal Server Error", "Server got itself in trouble">>]

\* json.dumps(value).encode('utf-8'), as a sequence of pieces.
JsonDumps(value) == <<"json:", value>>

JsonType == "application/json"

JsonUtf8Type == "application/json; charset=utf-8"

Response(status, close, ctype, body) ==
    [status |-> status, close |-> close, ctype |-> ctype,
     clen |-> Len(body), body |-> body]

\* How a route handler can end: it returns data that json.dumps accepts or
\* rejects, or it raises.
HandlerOutcomes ==
    { [kind |-> "return", data |-> "data", serializable |-> TRUE, exc |-> NoExc],
      [kind |-> "return", data |-> "object", serializable |-> FALSE, exc |-> NoExc],
      [kind |-> "raise", data |-> None, serializable |-> FALSE, exc |-> PyError("TypeError")],
      [kind |-> "raise", data |-> None, serializable |-> FALSE, exc |-> PyError("Exception")],
      [kind |-> "raise", data |-> None, serializable |-> FALSE,
       exc |-> RESTError(StatusBadRequest, "bad item")],
      [kind |-> "raise", data |-> None, serializable |-> FALSE,
       exc |-> RESTError(403, "forbidden")],
      [kind |-> "raise", data |-> None, serializable |-> FALSE,
       exc |-> RESTErrorWithHeaders(StatusBadRequest, "bad item", "invalid")],
      [kind |-> "raise", data |-> None, serializable |-> FALSE,
       exc |-> RESTError(999, None)] }

NoOutcome == [kind |-> None, data |-> None, serializable |-> FALSE, exc |-> NoExc]

NoMessage == [method |-> None, path |-> <<>>, params |-> <<>>]

----------------------------------------------------------------------------
(* RESTRequestHandler: one request on one connection                       *)

IdleRequest ==
    /\ pc = "idle"
    /\ message = NoMessage
    /\ resolved = NotFound
    /\ bound = NoBind
    /\ invoked = 0
    /\ outcome = NoOutcome
    /\ exc = NoExc
    /\ transport = TRUE
    /\ keepAlive = TRUE
    /\ errors = <<>>
    /\ responses = <<>>

\* A request arrives and handle_request(message, payload) starts: the url is
\* parsed into path and params.
Receive(method, path, params) ==
    /\ pc = "idle"
    /\ message' = [method |-> method, path |-> path, params |-> params]
    /\ pc' = "received"
    /\ UNCHANGED <<resolved, bound, invoked, outcome, exc, transport, keepAlive,
                   errors, responses, debug>>
    /\ UNCHANGED routerVars

\* handle_request answering a failed resolve with the status of a bad request.
AfterResolve_BadRequest(r) ==
    IF r[1] = None
    THEN [pc |-> "raised", exc |-> RESTError(StatusBadRequest, "No handler found")]
    ELSE [pc |-> "resolved", exc |-> NoExc]

\* What handle_request does with resolve's answer: [pc, exc].
AfterResolve(r) ==
    IF r[1] = None
    THEN [pc |-> "raised", exc |-> RESTError(StatusNotFound, "No handler found")]
    ELSE [pc |-> "resolved", exc |-> NoExc]

\* handler, args = self.router.resolve(message.method, url.path)
ResolveRequest ==
    /\ pc = "received"
    /\ \E r \in {ResolveIn(nodes, handlers, message.method, message.path)} :
          \E a \in {AfterResolve(r)} :
              /\ resolved' = r
              /\ pc' = a.pc
              /\ exc' = a.exc
    /\ UNCHANGED <<message, bound, invoked, outcome, transport, keepAlive,
                   errors, responses, debug>>
    /\ UNCHANGED routerVars

\* handle_request going on to the handler whatever sig.bind answered.
AfterBind_NoRaise(b) == [pc |-> "bound", exc |-> NoExc]

\* What handle_request does with sig.bind's answer: [pc, exc].
AfterBind(b) ==
    IF ~b.ok
    THEN [pc |-> "raised", exc |-> RESTError(StatusBadRequest, b.error)]
    ELSE [pc |-> "bound", exc |-> NoExc]

\* bound = sig.bind(message, payload, *args, **params)
BindRequest ==
    /\ pc = "resolved"
    /\ LET b == Bind(Signature(resolved[1]), TransportArgs \o resolved[2], message.params)
           a == AfterBind(b)
       IN  /\ bound' = b
           /\ pc' = a.pc
           /\ exc' = a.exc
    /\ UNCHANGED <<message, resolved, invoked, outcome, transport, keepAlive,
                   errors, responses, debug>>
    /\ UNCHANGED routerVars

\* handler(*bound.args, **bound.kwargs): the handler coroutine starts.
CallHandler ==
    /\ pc = "bound"
    /\ invoked' = invoked + 1
    /\ pc' = "running"
    /\ UNCHANGED <<message, resolved, bound, outcome, exc, transport, keepAlive,
                   errors, responses, debug>>
    /\ UNCHANGED routerVars

\* The handler call placed inside the try of sig.bind: its TypeError becomes
\* a bad request.
AfterHandler_InsideTry(o) ==
    IF o.kind = "raise"
    THEN [pc |-> "raised",
          exc |-> IF o.exc.type = "TypeError"
                  THEN RESTError(StatusBadRequest, "TypeError") ELSE o.exc]
    ELSE [pc |-> "returned", exc |-> NoExc]

\* What "data = yield from handler(...)" leaves: [pc, exc].
AfterHandler(o) ==
    IF o.kind = "raise"
    THEN [pc |-> "raised", exc |-> o.exc]
    ELSE [pc |-> "returned", exc |-> NoExc]

\* The handler coroutine ends with outcome o.
HandlerEnds(o) ==
    /\ pc = "running"
    /\ outcome' = o
    /\ pc' = AfterHandler(o).pc
    /\ exc' = AfterHandler(o).exc
    /\ UNCHANGED <<message, resolved, bound, invoked, transport, keepAlive,
                   errors, responses, debug>>
    /\ UNCHANGED routerVars

\* The peer drops the connection while the handler is suspended:
\* transport and writer become None.
ConnectionLost ==
    /\ pc = "running"
    /\ transport
    /\ transport' = FALSE
    /\ UNCHANGED <<message, resolved, bound, invoked, outcome, exc, keepAlive,
                   errors, responses, debug, pc>>
    /\ UNCHANGED routerVars

\* The request task is cancelled after the connection was lost.
Cancelled ==
    /\ pc = "running"
    /\ ~transport
    /\ pc' = "done"
    /\ UNCHANGED <<message, resolved, bound, invoked, outcome, exc, keepAlive,
                   errors, responses, debug, transport>>
    /\ UNCHANGED routerVars

\* The content type _send_data sets.
SendDataType == JsonType

\* _send_data sending the 200 headers before it serializes the data: data
\* that json.dumps rejects leaves a response begun and then raises.
SendData_HeadersFirst(o, open, rs) ==
    IF ~open
    THEN [pc |-> "raised", exc |-> PyError("AttributeError"), responses |-> rs]
    ELSE IF ~o.serializable
    THEN [pc |-> "raised", exc |-> PyError("TypeError"),
          responses |-> Append(rs, Response(StatusOK, FALSE, JsonType, <<>>))]
    ELSE [pc |-> "done", exc |-> NoExc,
          responses |-> Append(rs, Response(StatusOK, FALSE, JsonType, JsonDumps(o.data)))]

\* resp = aiohttp.Response(self.writer, 200, ...); _send_data(resp, data);
\* write_eof: [pc, exc, responses].
SendData(o, open, rs) ==
    IF ~o.serializable
    THEN [pc |-> "raised", exc |-> PyError("TypeError"), responses |-> rs]
    ELSE IF ~open
    THEN [pc |-> "raised", exc |-> PyError("AttributeError"), responses |-> rs]
    ELSE [pc |-> "done", exc |-> NoExc,
          responses |-> Append(rs, Response(StatusOK, FALSE, SendDataType, JsonDumps(o.data)))]

\* The rest of handle_request after the handler returned.
SendResponse ==
    /\ pc = "returned"
    /\ LET s == SendData(outcome, transport, responses)
       IN  /\ pc' = s.pc
           /\ exc' = s.exc
           /\ responses' = s.responses
    /\ UNCHANGED <<message, resolved, bound, invoked, outcome, transport, keepAlive,
                   errors, debug>>
    /\ UNCHANGED routerVars

\* The status with which the exception e reaches handle_error: the code of an
\* HttpProcessingError, else handle_error's default.
ErrorStatus(e) == IF e.http THEN e.code ELSE StatusServerError

\* The reason with which the exception e reaches handle_error.
ErrorReason(e) == IF e.http THEN e.message ELSE None

\* handle_error writing the JSON error object whether debug is set or not.
ErrorResponse_AlwaysBody(status, reason, e, dbg) ==
    LET fromTable == reason = None \/ reason = ""
        listed == status \in DOMAIN RESPONSES
        st == IF fromTable /\ ~listed THEN StatusServerError ELSE status
        msg == IF fromTable THEN (IF listed THEN RESPONSES[status][2] ELSE "") ELSE reason
    IN  Response(st, TRUE, JsonUtf8Type, JsonDumps([result |-> "error", data |-> msg]))

\* The response handle_error writes for (status, reason, exc) when the
\* transport is there.
ErrorResponse(status, reason, e, dbg) ==
    LET fromTable == reason = None \/ reason = ""
        listed == status \in DOMAIN RESPONSES
        st == IF fromTable /\ ~listed THEN StatusServerError ELSE status
        msg == IF fromTable THEN (IF listed THEN RESPONSES[status][2] ELSE "") ELSE reason
        body == IF dbg /\ e # NoExc
                THEN JsonDumps([result |-> "error", data |-> msg])
                ELSE <<>>
    IN  Response(st, TRUE, JsonUtf8Type, body)

\* How a call of handle_error for the exception e leaves the try block: by
\* the early return when the transport is gone, by an exception of
\* response.add_header when the headers of e are invalid, else after the
\* response was written.
HandleErrorExit(open, e) ==
    IF ~open THEN "return"
    ELSE IF e.headers = "invalid" THEN "raise"
    ELSE "written"

\* handle_error with keep_alive(False) as the last statement of the try block,
\* not in a finally clause.
AfterHandleError_NoFinally(open, e, rs, dbg, ka) ==
    LET exit == HandleErrorExit(open, e)
    IN  [responses |-> IF exit = "written"
                       THEN Append(rs, ErrorResponse(ErrorStatus(e), ErrorReason(e), e, dbg))
                       ELSE rs,
         keepAlive |-> IF exit = "written" THEN FALSE ELSE ka]

\* What a call of handle_error for the exception e leaves: the responses
\* written and the keep-alive setting, which the finally clause turns off.
AfterHandleError(open, e, rs, dbg, ka) ==
    LET exit == HandleErrorExit(open, e)
    IN  [responses |-> IF exit = "written"
                       THEN Append(rs, ErrorResponse(ErrorStatus(e), ErrorReason(e), e, dbg))
                       ELSE rs,
         keepAlive |-> FALSE]

\* handle_error(status, message, payload, exc, headers, reason), called for the
\* exception that left handle_request.
HandleError ==
    /\ pc = "raised"
    /\ errors' = Append(errors, ErrorStatus(exc))
    /\ LET a == AfterHandleError(transport, exc, responses, debug, keepAlive)
       IN  /\ responses' = a.responses
           /\ keepAlive' = a.keepAlive
    /\ pc' = "done"
    /\ UNCHANGED <<message, resolved, bound, invoked, outcome, exc, transport, debug>>
    /\ UNCHANGED routerVars

----------------------------------------------------------------------------
(* Specifications                                                          *)

\* A Router on its own: registrations, then a resolve.
Init ==
    /\ nodes = EmptyNodes
    /\ handlers = EmptyHandlers
    /\ routes = {}
    /\ last = NoCall
    /\ debug = FALSE
    /\ IdleRequest

Next ==
    \/ \E m \in Methods, p \in PatternStrings, h \in HandlerNames : SetHandlerForPath(m, p, h)
    \/ \E m \in Methods, p \in PathStrings : Resolve(m, p)

Spec == Init /\ [][Next]_vars

\* A server whose class registered ServerRoutes, handling one request.
InitRequest ==
    /\ nodes = BuildRouter(EmptyNodes, EmptyHandlers, ServerRoutes).nodes
    /\ handlers = BuildRouter(EmptyNodes, EmptyHandlers, ServerRoutes).handlers
    /\ routes = {ServerRoutes[i] : i \in 1..Len(ServerRoutes)}
    /\ last = NoCall
    /\ debug \in BOOLEAN
    /\ IdleRequest

NextRequest ==
    \/ \E m \in Methods, p \in RequestPaths, q \in QueryParams : Receive(m, p, q)
    \/ ResolveRequest
    \/ BindRequest
    \/ CallHandler
    \/ \E o \in HandlerOutcomes : HandlerEnds(o)
    \/ ConnectionLost
    \/ Cancelled
    \/ SendResponse
    \/ HandleError

SpecRequest == InitRequest /\ [][NextRequest]_vars

\* The steps of a request that has been received.
RequestStep ==
    \/ ResolveRequest
    \/ BindRequest
    \/ CallHandler
    \/ \E o \in HandlerOutcomes : HandlerEnds(o)
    \/ Cancelled
    \/ SendResponse
    \/ HandleError

\* The same server on an event loop that runs every step that is ready, with
\* a route handler that comes to an end.
SpecRequestLive == SpecRequest /\ WF_vars(RequestStep)


----------------------------------------------------------------------------
(* Router properties                                                       *)

\* The '$' positions of a split pattern.
WildcardPositions(pp) == {i \in 1..Len(pp) : pp[i] = Dollar}

RECURSIVE PickSegments(_, _, _)
\* The pieces of parts at the positions pos, from position i on, left to right.
PickSegments(parts, pos, i) ==
    IF i > Len(parts) THEN <<>>
    ELSE (IF i \in pos THEN <<parts[i]>> ELSE <<>>) \o PickSegments(parts, pos, i + 1)

\* path is pattern with exactly its '$' pieces replaced by non-empty literal
\* text (text that is not the marker).
Instantiates(path, pattern) ==
    LET p == StrSplit(path)
        q == StrSplit(pattern)
    IN  /\ Len(p) = Len(q)
        /\ \A i \in 1..Len(q) :
              IF q[i] = Dollar THEN p[i] \notin {<<>>, Dollar} ELSE p[i] = q[i]

\* The strings put in place of the '$' pieces of pattern to obtain path.
Substituted(path, pattern) ==
    PickSegments(StrSplit(path), WildcardPositions(StrSplit(pattern)), 1)

\* No text put in place of a '$' of pattern is a key of the node where that
\* '$' is looked up: it is no literal registered as a sibling of the '$'.
Unshadowed(path, pattern) ==
    LET p == StrSplit(path)
        q == SplitPath(pattern)
    IN  \A i \in WildcardPositions(q) : Append(SubSeq(q, 1, i - 1), p[i]) \notin nodes

\* C1 as stated: resolving any path that instantiates a registered pattern
\* returns that pattern's handler and the substituted strings in order.
C1_AsStated ==
    last.op = "resolve" =>
        \A r \in routes :
            (r[1] = last.method /\ Instantiates(last.path, r[2]))
                => /\ last.result[1] = r[3]
                   /\ last.result[2] = Substituted(last.path, r[2])

\* C1 amended: resolving a path that instantiates a registered pattern, where
\* no substituted string is a literal registered as a sibling of the '$' it
\* replaces, returns that pattern's handler and the substituted strings in order.
C1_Resolution ==
    last.op = "resolve" =>
        \A r \in routes :
            (/\ r[1] = last.method
             /\ Instantiates(last.path, r[2])
             /\ Unshadowed(last.path, r[2]))
                => /\ last.result[1] = r[3]
                   /\ last.result[2] = Substituted(last.path, r[2])

\* A resolve of a two-wildcard pattern that captured two different strings.
C1_Witness ==
    /\ last.op = "resolve"
    /\ last.result[1] # None
    /\ \E r \in routes :
          /\ r[1] = last.method
          /\ r[3] = last.result[1]
          /\ Instantiates(last.path, r[2])
          /\ Unshadowed(last.path, r[2])
          /\ Cardinality(WildcardPositions(StrSplit(r[2]))) = 2
    /\ last.result[2] = << <<"a">>, <<"b">> >>

\* C2 literal precedence: when the path follows a registered pattern and, at
\* some literal piece of it, the node also has a '$' child, resolve returns the
\* pattern's handler and captures only at the pattern's own '$' pieces.
C2_LiteralPrecedence ==
    last.op = "resolve" =>
        \A r \in routes :
            LET q == SplitPath(r[2])
            IN  (/\ r[1] = last.method
                 /\ Instantiates(last.path, r[2])
                 /\ Unshadowed(last.path, r[2])
                 /\ \E i \in 1..Len(q) :
                       /\ q[i] # Dollar
                       /\ Append(SubSeq(q, 1, i - 1), Dollar) \in nodes)
                    => /\ last.result[1] = r[3]
                       /\ last.result[2] = Substituted(last.path, r[2])

\* Sibling routes 'a/a' and 'a/$' under one method with two handlers, and the
\* resolve of 'a/a' answered by the literal route with nothing captured.
C2_Witness ==
    /\ last.op = "resolve"
    /\ last.path = <<"a", Slash, "a">>
    /\ \E r \in routes, w \in routes :
          /\ r[1] = last.method /\ w[1] = last.method
          /\ r[2] = <<"a", Slash, "a">>
          /\ w[2] = <<"a", Slash, "$">>
          /\ r[3] # w[3]
          /\ last.result[1] = r[3]
    /\ last.result[2] = <<>>

\* The split path has the shape of the split pattern: equal at the literal
\* pieces, anything at the '$' pieces.
Matches(path, pattern) ==
    LET p == SplitPath(path)
        q == SplitPath(pattern)
    IN  /\ Len(p) = Len(q)
        /\ \A i \in 1..Len(q) : q[i] = Dollar \/ p[i] = q[i]

\* C3 method isolation: resolve returns a handler only if a registration with
\* exactly the resolved method, for a pattern matching the path, gave it.
C3_MethodIsolation ==
    (last.op = "resolve" /\ last.result[1] # None) =>
        \E r \in routes :
            /\ r[1] = last.method
            /\ r[3] = last.result[1]
            /\ Matches(last.path, r[2])

\* A resolve that found nothing although the path is a pattern registered
\* under the other method.
C3_Witness ==
    /\ last.op = "resolve"
    /\ last.result = NotFound
    /\ \E r \in routes : r[1] # last.method /\ r[2] = last.path
    /\ last.path # <<>>

\* The string ends in '/'.
EndsWithSlash(s) == s # <<>> /\ s[Len(s)] = Slash

\* Two results of resolve are the same.
SameResult(x, y) == x[1] = y[1] /\ (x[1] # None => x[2] = y[2])

\* The step is a registration whose effect is that of registering the same
\* pattern with one more '/' at the end.
SameRegistration ==
    SetHandler(nodes, handlers, last'.method, last'.path \o <<Slash>>, last'.handler)
        = [nodes |-> nodes', handlers |-> handlers', raised |-> last'.raised]

\* The step is a resolve whose result is that of resolving the same path with
\* one more '/' at the end.
SameResolution ==
    SameResult(last'.result,
               ResolveIn(nodes', handlers', last'.method, last'.path \o <<Slash>>))

\* C4 as stated: for every pattern and every path, one more '/' at the end
\* changes neither the registration nor the result of resolve.
C4_AsStated ==
    [][/\ last'.op = "set" => SameRegistration
       /\ last'.op = "resolve" => SameResolution]_vars

\* C4 amended: for every non-empty pattern and path that does not already end
\* in '/', one more '/' at the end changes neither the registration nor the
\* result of resolve.
C4_TrailingSlash ==
    [][(last'.path # <<>> /\ ~EndsWithSlash(last'.path)) =>
          /\ last'.op = "set" => SameRegistration
          /\ last'.op = "resolve" => SameResolution]_vars

\* A pattern registered with a trailing '/' and resolved, with a capture, by a
\* path without it.
C4_Witness ==
    /\ last.op = "resolve"
    /\ last.path # <<>> /\ ~EndsWithSlash(last.path)
    /\ last.result[1] # None
    /\ \E r \in routes :
          /\ r[1] = last.method /\ r[3] = last.result[1]
          /\ EndsWithSlash(r[2])
          /\ r[2] = <<"$", Slash>>
    /\ last.result[2] = << <<"b">> >>

\* C5 duplicate detection: set_handler_for_path raises exactly when the method
\* is already registered for the same split pattern, whatever the handler; so
\* the same pattern under another method does not raise.
C5_DuplicateDetection ==
    [][last'.op = "set" =>
          (last'.raised <=>
              \E r \in routes :
                  /\ r[1] = last'.method
                  /\ SplitPath(r[2]) = SplitPath(last'.path))]_vars

\* A second registration of a registered (method, pattern), with another
\* handler name, that raised, while the pattern is also registered under
\* the other method.
C5_Witness ==
    /\ last.op = "set"
    /\ last.raised
    /\ \E r \in routes :
          r[1] = last.method /\ r[2] = last.path /\ r[3] # last.handler
    /\ \E r \in routes : r[1] # last.method /\ r[2] = last.path


----------------------------------------------------------------------------
(* Request handling properties                                             *)

\* resolve has answered for the request.
ResolveDone == pc \notin {"idle", "received"}

\* resolve found a handler and sig.bind has answered for the request.
BindDone == ResolveDone /\ resolved[1] # None /\ pc # "resolved"

\* Exactly one response was written, with this status.
OneResponse(status) == Len(responses) = 1 /\ responses[1].status = status

\* The media type of the content type is application/json.
IsJson(ctype) == ctype \in {JsonType, JsonUtf8Type}

\* The names a signature declares.
DeclaredNames(sig) ==
    {sig.pos[i].name : i \in 1..Len(sig.pos)} \cup {sig.kwonly[i].name : i \in 1..Len(sig.kwonly)}

\* C6 not found: when resolve finds no handler the request ends with one 404
\* response of a JSON content type, its body empty unless debug is on, and no
\* handler is invoked.
C6_NotFound ==
    (ResolveDone /\ resolved[1] = None) =>
        /\ invoked = 0
        /\ pc # "done" => responses = <<>>
        /\ pc = "done" =>
              /\ OneResponse(StatusNotFound)
              /\ IsJson(responses[1].ctype)
              /\ ~debug => Len(responses[1].body) = 0

\* A request for an unregistered path, ended with an empty 404, debug off.
C6_Witness ==
    /\ pc = "done"
    /\ message.path = <<"/", "n">>
    /\ resolved[1] = None
    /\ ~debug
    /\ OneResponse(StatusNotFound)
    /\ Len(responses[1].body) = 0
    /\ invoked = 0

\* The request resolved to a handler without **kwargs and carries a query key
\* that is none of the handler's parameter names.
UnknownParameter ==
    /\ BindDone
    /\ ~Signature(resolved[1]).varkw
    /\ \E k \in DOMAIN message.params : k \notin DeclaredNames(Signature(resolved[1]))

\* C7 as stated: such a request ends with one 400 response with an empty
\* body, and the handler is never invoked.
C7_AsStated ==
    UnknownParameter =>
        /\ invoked = 0
        /\ pc = "done" => (OneResponse(StatusBadRequest) /\ Len(responses[1].body) = 0)

\* C7 amended: such a request ends with one 400 response, its body empty
\* when debug is off, and the handler is never invoked.
C7_UnknownParameter ==
    UnknownParameter =>
        /\ invoked = 0
        /\ pc = "done" =>
              /\ OneResponse(StatusBadRequest)
              /\ ~debug => Len(responses[1].body) = 0

\* '/f?test=1' for the parameterless handler foo, ended with an empty 400.
C7_Witness ==
    /\ pc = "done"
    /\ UnknownParameter
    /\ resolved[1] = "foo"
    /\ DOMAIN message.params = {"test"}
    /\ ~debug
    /\ OneResponse(StatusBadRequest)
    /\ Len(responses[1].body) = 0
    /\ invoked = 0

\* After the positional values, a parameter without default is given no
\* value by the query.
MissingValue(sig, args, params) ==
    \E q \in KeywordParams(sig, Len(args)) : q.required /\ q.name \notin DOMAIN params

\* There are more positional values than the positional parameters take
\* (a declared *args takes any number).
ArityExceeded(sig, args) == Len(args) > Len(sig.pos) /\ ~sig.varpos

\* C8 missing value and arity: when a required parameter is left without a
\* value, or the captured arguments outnumber the positional parameters, the
\* request ends with one 400 response and the handler is not invoked.
C8_MissingOrArity ==
    (/\ BindDone
     /\ \/ MissingValue(Signature(resolved[1]), TransportArgs \o resolved[2], message.params)
        \/ ArityExceeded(Signature(resolved[1]), TransportArgs \o resolved[2]))
        => /\ invoked = 0
           /\ ~bound.ok
           /\ pc = "done" => OneResponse(StatusBadRequest)

\* '/b' without the required keyword of bar, ended with 400.
C8_Witness ==
    /\ pc = "done"
    /\ resolved[1] = "bar"
    /\ DOMAIN message.params = {}
    /\ MissingValue(Signature(resolved[1]), TransportArgs \o resolved[2], message.params)
    /\ OneResponse(StatusBadRequest)
    /\ invoked = 0

\* '/f/x' for foo, which has no parameter for the captured 'x', ended with 400.
C8_WitnessArity ==
    /\ pc = "done"
    /\ resolved[1] = "foo"
    /\ Len(resolved[2]) = 1
    /\ DOMAIN message.params = {}
    /\ OneResponse(StatusBadRequest)
    /\ invoked = 0

\* C9 as stated: any exception raised by the running handler ends the request
\* with a 500 response, never a 400, and the handler is not invoked again.
C9_AsStated ==
    (pc = "done" /\ outcome.kind = "raise") =>
        /\ OneResponse(StatusServerError)
        /\ invoked = 1

\* C9 amended: an exception raised by the running handler that is not an
\* HttpProcessingError reaches handle_error with status 500, also when it is a
\* TypeError; the only response is then a 500, written unless the connection
\* was lost meanwhile, never a 400, and the handler is not invoked again.
C9_HandlerFailure ==
    (outcome.kind = "raise" /\ ~outcome.exc.http) =>
        /\ invoked = 1
        /\ \A i \in 1..Len(responses) : responses[i].status # StatusBadRequest
        /\ pc = "done" =>
              /\ errors = <<StatusServerError>>
              /\ transport => OneResponse(StatusServerError)
              /\ ~transport => responses = <<>>

\* A handler that raised TypeError, answered with 500.
C9_Witness ==
    /\ pc = "done"
    /\ outcome.kind = "raise"
    /\ outcome.exc.type = "TypeError"
    /\ bound.ok
    /\ OneResponse(StatusServerError)
    /\ invoked = 1

\* C10 per-request ordering: the handler is invoked at most once, only after
\* resolve and then sig.bind succeeded; a successful bind is followed by
\* exactly one invocation; a 200 response is written only after the
\* invocation returned.
C10_Ordering ==
    /\ invoked \in {0, 1}
    /\ pc \in {"idle", "received"} => (invoked = 0 /\ ~bound.ok)
    /\ bound.ok => (ResolveDone /\ resolved[1] # None)
    /\ invoked = 1 <=> (bound.ok /\ pc # "bound")
    /\ (\E i \in 1..Len(responses) : responses[i].status = StatusOK) =>
          /\ invoked = 1
          /\ outcome.kind = "return"
          /\ pc = "done"

\* A request bound, invoked once, returned and answered with 200.
C10_Witness ==
    /\ pc = "done"
    /\ bound.ok
    /\ invoked = 1
    /\ outcome.kind = "return"
    /\ OneResponse(StatusOK)

\* The status handle_error answers with for the exception e: that of an
\* HttpProcessingError which brings a reason or whose code RESPONSES lists,
\* else 500.
AnsweredStatus(e) ==
    IF e.http /\ (e.message \notin {None, ""} \/ e.code \in DOMAIN RESPONSES)
    THEN e.code
    ELSE StatusServerError

\* The status the request is to end with, by the way it went.
TerminalStatus ==
    IF resolved[1] = None THEN StatusNotFound
    ELSE IF ~bound.ok THEN StatusBadRequest
    ELSE IF outcome.kind = "raise" THEN AnsweredStatus(outcome.exc)
    ELSE IF outcome.serializable THEN StatusOK
    ELSE StatusServerError

\* handle_error was called and failed itself before it wrote: the headers of
\* the exception are refused by response.add_header.
ErrorNotWritten == errors # <<>> /\ exc.headers = "invalid"

\* C11 as stated: a request that ended has emitted exactly one response, of
\* status 404, 400, 500 or 200.
C11_AsStated ==
    pc = "done" =>
        /\ Len(responses) = 1
        /\ responses[1].status \in
              {StatusNotFound, StatusBadRequest, StatusServerError, StatusOK}

\* No response before the end, never two; at the end one response of the
\* status the request's way calls for, or none when the connection was lost.
C11_AtMostOnce ==
    /\ Len(responses) <= 1
    /\ pc # "done" => responses = <<>>
    /\ (pc = "done" /\ transport /\ ~ErrorNotWritten) => OneResponse(TerminalStatus)
    /\ (pc = "done" /\ (~transport \/ ErrorNotWritten)) => responses = <<>>

\* C11 amended: every request received comes to its end; a request whose
\* connection is still there at its end has emitted exactly one response
\* (404 not found, 400 bind failure, 200 handler returned, the own status of
\* an HttpProcessingError the handler raised, 500 otherwise), a request
\* whose connection was lost, or whose handler raised an error with headers
\* that handle_error cannot write, has emitted none, and none ever emits two.
C11_ExactlyOneResponse == []C11_AtMostOnce /\ ((pc = "received") ~> (pc = "done"))

\* A handler returned data that json.dumps rejects: one 500, no 200 begun.
C11_Witness ==
    /\ pc = "done"
    /\ transport
    /\ outcome.kind = "return"
    /\ ~outcome.serializable
    /\ OneResponse(StatusServerError)

\* C12 binding order: the call handler(*bound.args, **bound.kwargs) passes
\* message and payload first, then the captured path arguments in capture
\* order; every query parameter reaches the parameter of its name (or
\* **kwargs) with its text unchanged; nothing else is passed, so a parameter
\* the request does not supply keeps its declared default.
C12_BindingOrder ==
    bound.ok =>
        LET sig == Signature(resolved[1])
            a == BoundArgs(sig, bound)
            kw == BoundKwargs(sig, bound)
            caps == resolved[2]
            np == Len(TransportArgs) + Len(caps)
        IN  /\ Len(a) >= np
            /\ SubSeq(a, 1, Len(TransportArgs)) = TransportArgs
            /\ \A i \in 1..Len(caps) : a[Len(TransportArgs) + i] = caps[i]
            /\ \A k \in DOMAIN message.params :
                  \/ k \in DOMAIN kw /\ kw[k] = message.params[k]
                  \/ \E j \in (np + 1)..Min(Len(a), Len(sig.pos)) :
                        sig.pos[j].name = k /\ a[j] = message.params[k]
            /\ DOMAIN kw \subseteq DOMAIN message.params
            /\ \A j \in (np + 1)..Len(a) :
                  j <= Len(sig.pos) /\ sig.pos[j].name \in DOMAIN message.params

\* '/p?param1=1' for foo(message, payload, param1=10, param2=20): param1 is
\* passed the text '1', param2 is passed nothing, and the answer is 200.
C12_Witness ==
    /\ pc = "done"
    /\ resolved[1] = "foo_params"
    /\ DOMAIN message.params = {"param1"}
    /\ bound.ok
    /\ BoundArgs(Signature("foo_params"), bound) = TransportArgs \o << <<"1">> >>
    /\ DOMAIN BoundKwargs(Signature("foo_params"), bound) = {}
    /\ OneResponse(StatusOK)

\* '/p?param2=1': param2 is passed by name, param1 is passed nothing.
C12_WitnessByName ==
    /\ pc = "done"
    /\ resolved[1] = "foo_params"
    /\ bound.ok
    /\ BoundArgs(Signature("foo_params"), bound) = TransportArgs
    /\ DOMAIN BoundKwargs(Signature("foo_params"), bound) = {"param2"}

\* C13 response shape: every response written, the 200 of the success path
\* as well as an error response, has the Content-Type
\* 'application/json; charset=utf-8' and a Content-Length equal to the
\* length of the body written.
C13_ResponseShape ==
    \A i \in 1..Len(responses) :
        /\ responses[i].ctype = JsonUtf8Type
        /\ responses[i].clen = Len(responses[i].body)

\* The message of the error the request ended with: the text of the RESTError
\* or HttpProcessingError when it brings one, else the text RESPONSES has for
\* its status, else the empty text.
ErrorMessage ==
    IF exc.http /\ exc.message \notin {None, ""} THEN exc.message
    ELSE IF ErrorStatus(exc) \in DOMAIN RESPONSES THEN RESPONSES[ErrorStatus(exc)][2]
    ELSE ""

\* C14 error response shape: every response written by handle_error has an
\* empty body when debug is off, and the JSON object
\* {"result": "error", "data": <message>} as its body when debug is on.
C14_ErrorShape ==
    \A i \in 1..Len(responses) :
        responses[i].close =>
            /\ ~debug => responses[i].body = <<>>
            /\ debug => /\ Len(responses[i].body) = 2
                        /\ responses[i].body =
                              JsonDumps([result |-> "error", data |-> ErrorMessage])

\* With debug on, an unresolved request is answered 404 with the error object
\* carrying the text of the RESTError.
C14_Witness ==
    /\ pc = "done"
    /\ debug
    /\ resolved[1] = None
    /\ OneResponse(StatusNotFound)
    /\ responses[1].body = JsonDumps([result |-> "error", data |-> "No handler found"])

\* With debug off, a failed bind is answered 400 with an empty body.
C14_WitnessEmpty ==
    /\ pc = "done"
    /\ ~debug
    /\ ~bound.ok /\ resolved[1] # None
    /\ OneResponse(StatusBadRequest)
    /\ responses[1].body = <<>>

\* C15 dropped connection: when the connection was lost while the handler
\* ran and the handler then returned, the request ends with no response
\* written and without handle_error having been called for it.
C15_DroppedConnection ==
    (pc = "done" /\ ~transport /\ outcome.kind = "return" /\ outcome.serializable) =>
        /\ responses = <<>>
        /\ errors = <<>>

\* C16 resolve leaves the tree alone: a call of resolve, whether it finds a
\* handler or not, creates no node and changes no handlers mapping.  What
\* resolve returns is a function of the tree and of its arguments (ResolveIn),
\* so resolves of other callers in between, which see the tree the
\* registrations left, return what they return one after the other.
C16_ResolveFrame ==
    [][last'.op = "resolve" =>
          /\ nodes' = nodes
          /\ handlers' = handlers]_vars

\* A resolve of a two-segment path missed in a tree that has a registered
\* route and neither a child for the first segment nor a '$' child.
C16_Witness ==
    /\ last.op = "resolve"
    /\ last.result[1] = None
    /\ routes # {}
    /\ Len(SplitPath(last.path)) = 2
    /\ ~Contains(nodes, Root, SplitPath(last.path)[1])
    /\ ~Contains(nodes, Root, Dollar)

\* A resolve that found its handler.
C16_WitnessFound ==
    /\ last.op = "resolve"
    /\ last.result[1] # None
    /\ Len(last.result[2]) = 1

\* The node the loop of the last resolve reached.
ReachedNode == ResolveWalk(nodes, Root, SplitPath(last.path), <<>>).router

\* C17 non-empty captures: no resolve that finds a handler returns the empty
\* string among its captured arguments; '$' does not match an empty segment.
C17_NonEmptyCapture ==
    (last.op = "resolve" /\ last.result[1] # None) =>
        \A i \in 1..Len(last.result[2]) : last.result[2][i] # <<>>

\* C18 captures: a resolve that finds a handler returns one captured argument
\* for every '$' piece of the pattern it matched, the piece of the path at
\* that position, in order, also when that piece of the path is '$'.
C18_CapturePerWildcard ==
    (last.op = "resolve" /\ last.result[1] # None) =>
        last.result[2] =
            PickSegments(SplitPath(last.path), WildcardPositions(ReachedNode), 1)

\* C19 handlers at terminal nodes only: after any registrations, a node has a
\* handler for a method only if a registered pattern of that method ends at
\* the node, with that handler; hence a resolve finds a handler only at the
\* end of a registered pattern that has as many pieces as the path, and
\* neither a strict prefix of a pattern nor an extension of it resolves by
\* that pattern.
C19_TerminalOnly ==
    /\ \A n \in nodes : \A m \in DOMAIN handlers[n] :
          \E r \in routes :
              r[1] = m /\ SplitPath(r[2]) = n /\ r[3] = handlers[n][m]
    /\ (last.op = "resolve" /\ last.result[1] # None) =>
          \E r \in routes :
              /\ r[1] = last.method
              /\ r[3] = last.result[1]
              /\ SplitPath(r[2]) = ReachedNode
              /\ Len(SplitPath(r[2])) = Len(SplitPath(last.path))

\* Only 'a/a' is registered; its strict prefix 'a' is a node of the tree
\* without handlers, and resolving 'a' with the route's method finds nothing.
C19_Witness ==
    /\ last.op = "resolve"
    /\ last.path = <<"a">>
    /\ Cardinality(routes) = 1
    /\ \E r \in routes : r[1] = last.method /\ r[2] = <<"a", Slash, "a">>
    /\ <<<<"a">>>> \in nodes
    /\ DOMAIN handlers[<<<<"a">>>>] = {}
    /\ last.result[1] = None

\* The walk of the last resolve came to its end at a node.
WalkFound == ResolveWalk(nodes, Root, SplitPath(last.path), <<>>).found

\* Some registered pattern of the resolved method has the shape of the path.
SomeRouteMatches ==
    \E r \in routes : r[1] = last.method /\ Matches(last.path, r[2])

\* C20 no backtracking: the walk of resolve takes the '$' child at a piece
\* only when the node has no child keyed by the piece itself, and the node it
\* reaches is the one this rule leads to; when the walk below a literal child
\* comes to nothing, resolve answers not found, also when a pattern through
\* the '$' sibling has the shape of the path.
C20_NoBacktracking ==
    last.op = "resolve" =>
        LET parts == SplitPath(last.path)
            n == ReachedNode
        IN  /\ \A i \in 1..Len(n) :
                  IF Append(SubSeq(n, 1, i - 1), parts[i]) \in nodes
                  THEN n[i] = parts[i]
                  ELSE n[i] = Dollar
            /\ ~WalkFound =>
                  /\ last.result[1] = None
                  /\ Len(n) < Len(parts)
                  /\ Append(n, parts[Len(n) + 1]) \notin nodes
                  /\ Append(n, Dollar) \notin nodes

\* 'a/a' and '$/$' are registered under one method; resolving 'a/b' follows
\* the literal 'a', finds no child for 'b' there, and answers not found
\* although '$/$' has the shape of 'a/b'.
C20_Witness ==
    /\ last.op = "resolve"
    /\ last.path = <<"a", Slash, "b">>
    /\ \E r \in routes, w \in routes :
          /\ r[1] = last.method /\ w[1] = last.method
          /\ r[2] = <<"a", Slash, "a">>
          /\ w[2] = <<"$", Slash, "$">>
    /\ SomeRouteMatches
    /\ ReachedNode = <<<<"a">>>>
    /\ last.result[1] = None

\* C21 failed registration changes nothing: a set_handler_for_path that
\* raises for a duplicate leaves the nodes, every handlers mapping and the
\* registered routes as they were; what resolve returns is a function of
\* these, so every (method, path) resolves to what it resolved to before the
\* call, the path of the refused registration among them.
C21_FailedRegistration ==
    [][(last'.op = "set" /\ last'.raised) =>
          /\ nodes' = nodes
          /\ handlers' = handlers
          /\ routes' = routes
          /\ SameResult(ResolveIn(nodes', handlers', last'.method, last'.path),
                        ResolveIn(nodes, handlers, last'.method, last'.path))]_vars

\* A registration of a registered (method, pattern) with another handler
\* raised, and the node still maps the method to the first handler.
C21_Witness ==
    /\ last.op = "set"
    /\ last.raised
    /\ \E r \in routes :
          /\ r[1] = last.method
          /\ SplitPath(r[2]) = SplitPath(last.path)
          /\ r[3] # last.handler
          /\ handlers[SplitPath(last.path)][last.method] = r[3]

\* C22 error path always closes: every call of handle_error leaves keep-alive
\* turned off, whether it wrote the response, returned early because the
\* transport was gone, or raised while preparing the response; and with the
\* transport gone it writes nothing.
C22_ErrorPathCloses ==
    [][Len(errors') > Len(errors) =>
          /\ ~keepAlive'
          /\ ~transport => responses' = responses]_vars

\* handle_error was called with the transport gone: nothing written,
\* keep-alive off.
C22_Witness ==
    /\ pc = "done"
    /\ errors # <<>>
    /\ ~transport
    /\ responses = <<>>
    /\ ~keepAlive

\* handle_error raised on the headers of the exception: nothing written,
\* keep-alive off.
C22_WitnessRaise ==
    /\ pc = "done"
    /\ errors # <<>>
    /\ transport
    /\ HandleErrorExit(transport, exc) = "raise"
    /\ responses = <<>>
    /\ ~keepAlive

\* The names of the parameters of sig that n positional values fill.
FilledPositionally(sig, n) == {sig.pos[i].name : i \in 1..Min(n, Len(sig.pos))}

\* The request resolved to a handler and carries a query key that names a
\* parameter filled by message, payload or a captured path argument.
Collision ==
    /\ BindDone
    /\ DOMAIN message.params
          \cap FilledPositionally(Signature(resolved[1]),
                                  Len(TransportArgs) + Len(resolved[2])) # {}

\* C23 query key colliding with a positional value: such a request fails to
\* bind, ends with one 400 response, and its handler is not invoked, although
\* the key names a declared parameter, and also when the handler declares
\* **kwargs.
C23_Collision ==
    Collision =>
        /\ ~bound.ok
        /\ invoked = 0
        /\ pc = "done" => OneResponse(StatusBadRequest)

\* 'POST /r/x/i/y?item_id=1' for resource_item, whose item_id is filled by the
\* captured 'y': ended with 400, handler not invoked.
C23_Witness ==
    /\ pc = "done"
    /\ Collision
    /\ resolved[1] = "resource_item"
    /\ DOMAIN message.params = {"item_id"}
    /\ "item_id" \in DeclaredNames(Signature(resolved[1]))
    /\ OneResponse(StatusBadRequest)
    /\ invoked = 0

\* 'GET /k?message=1' for a handler with **kwargs: ended with 400 as well.
C23_WitnessKwargs ==
    /\ pc = "done"
    /\ Collision
    /\ Signature(resolved[1]).varkw
    /\ DOMAIN message.params = {"message"}
    /\ OneResponse(StatusBadRequest)
    /\ invoked = 0

====
